---- MODULE Spec2Model ----
\* Model of digital_caliper.ino: the clock-edge interrupt handler read_bit,
\* the polling loop that drains a completed 24-bit packet, and handleData,
\* which decodes the packet into a signed measurement and a unit flag.
EXTENDS Integers, Sequences, FiniteSets, TLC

\* ---------------------------------------------------------------- bounds

\* Clock edges handled in one behaviour.
MaxEdges == 26
\* Edges of one behaviour whose gap is not the nominal bit gap.
MaxOddGaps == 2
\* How many entries of TestFrames the caliper may transmit.
NumWords == 3
\* Drains the polling loop performs in one behaviour.
MaxDrains == 2
\* The same four bounds for the long behaviours, in which two packets complete
\* and a third begins before the loop polls.
LongEdges == 50
LongOddGaps == 2
LongWords == 1
LongDrains == 1
\* The packets handed to handleData on its own: magnitude fields within
\* DecodeSpan of 0, of the clamp limit and of the largest 20-bit value.
DecodeSpan == 100
\* The behaviours checked for progress: one word, 25 edges.
FairEdges == 25
FairOddGaps == 1
FairWords == 1
\* The display throttle is followed for this many milliseconds.
MaxMs == 600

\* ------------------------------------------------------ program constants

PACKET_TIMEOUT_US == 5000
PACKET_BITS == 24
UPDATE_OLED_PERIOD == 100
HIGH == 1
LOW == 0
CLAMP_MAX == 15000

\* ------------------------------------------------- 32-bit unsigned long
\* An unsigned long is 32 bits wide; it is kept as two 16-bit limbs <<hi, lo>>
\* so that every intermediate value stays inside TLC's integers.

Limb == 2^16

U32Zero == <<0, 0>>

AddU32(a, b) ==
  LET lo == a[2] + b[2]
      hi == a[1] + b[1] + (lo \div Limb)
  IN  <<hi % Limb, lo % Limb>>

SubU32(a, b) ==
  LET lo == a[2] - b[2]
      borrow == IF lo < 0 THEN 1 ELSE 0
      hi == a[1] - b[1] - borrow
  IN  <<hi % Limb, lo % Limb>>

\* a > k for an unsigned long a and a constant k below 2^16.
GtU32(a, k) == a[1] > 0 \/ a[2] > k

\* -------------------------------------------------------- bit operations

RECURSIVE BitAnd(_, _)
BitAnd(a, b) ==
  IF a = 0 \/ b = 0 THEN 0
  ELSE (a % 2) * (b % 2) + 2 * BitAnd(a \div 2, b \div 2)

RECURSIVE BitOr(_, _)
BitOr(a, b) ==
  IF a = 0 THEN b
  ELSE IF b = 0 THEN a
  ELSE (IF a % 2 = 1 \/ b % 2 = 1 THEN 1 ELSE 0) + 2 * BitOr(a \div 2, b \div 2)

ShiftRight(a, n) == a \div (2^n)

bitRead(value, bit) == BitAnd(ShiftRight(value, bit), 1)

\* A constrain() that leaves its argument as it is.
constrain_NoClamp(amt, low, high) == amt

\* A constrain() that clamps at the upper limit only.
constrain_UpperOnly(amt, low, high) == IF amt > high THEN high ELSE amt

constrain(amt, low, high) ==
  IF amt < low THEN low ELSE IF amt > high THEN high ELSE amt

\* ------------------------------------------------------------ the inputs
\* The true time between two consecutive read_bit invocations (for the first
\* one, since boot) is <<w, hi, lo>>: w whole periods of the 32-bit timer plus
\* hi * 2^16 + lo microseconds.

NominalGap == <<0, 0, 4999>>
OddGaps ==
  { <<0, 0, 5000>>,           \* exactly the timeout
    <<0, 0, 5001>>,           \* one microsecond over the timeout
    <<0, 65535, 58036>>,      \* 2^32 - 7500: brings the timer close to its wrap
    <<1, 0, 100>>,            \* 2^32 + 100: one whole timer period and a bit
    <<1, 0, 6000>> }          \* 2^32 + 6000: one whole timer period and 6 ms

GapBelow(g, k) == g[1] = 0 /\ g[2] = 0 /\ g[3] < k
GapAbove(g, k) == g[1] > 0 \/ g[2] > 0 \/ g[3] > k

\* Packets the caliper transmits, as <<magnitude field, flag nibble>>.
TestFrames ==
  << <<14942, 9>>, <<1, 0>>, <<1048575, 0>>, <<14942, 0>>, <<15001, 7>>, <<0, 8>> >>

Encode(m, f) == m + f * (2^20)

Words(n) == { Encode(TestFrames[i][1], TestFrames[i][2]) : i \in 1..n }

\* The levels the DATA line may show on the next sampled edge, given the levels
\* sampled so far in this packet: the caliper is sending one of Words, least
\* significant bit first.
DataLevels(pre, words) ==
  { l \in {LOW, HIGH} :
      \E w \in words :
        /\ bitRead(w, Len(pre)) = l
        /\ \A i \in 1..Len(pre) : bitRead(w, i - 1) = pre[i] }

\* The value of a sequence of levels received least significant bit first.
RECURSIVE LsbFirstValue(_)
LsbFirstValue(s) ==
  IF s = <<>> THEN 0 ELSE Head(s) + 2 * LsbFirstValue(Tail(s))

VARIABLES
  \* program state
  caliper_raw_data, bit_counter, new_packet_ready, last_interrupt_time,
  oledTimer, measurement, inch,
  \* the polling context: its position in loop(), its locals, the interrupt mask
  pc, data_copy, integerMeasurement, flags, intEnabled,
  \* history of the inputs and of what the handlers did
  edges, oddGaps, gap, didReset, sampled, nEdges, framed, runUnder, runWithin,
  completions, drains, served, lastFrame, copied, encoded,
  \* the millisecond clock: millis() without truncation, the time of the last
  \* redraw and the time between the last two redraws (-1: none yet)
  nowMs, lastRedraw, redrawGap

progVars == <<caliper_raw_data, bit_counter, new_packet_ready, last_interrupt_time,
              oledTimer, measurement, inch>>
loopVars == <<pc, data_copy, integerMeasurement, flags, intEnabled>>
histVars == <<edges, oddGaps, gap, didReset, sampled, nEdges, framed, runUnder,
              runWithin, completions, drains, served, lastFrame, copied, encoded,
              nowMs, lastRedraw, redrawGap>>
vars == <<progVars, loopVars, histVars>>

\* encoded names the fields a packet was built from when the packet is an
\* input of the decoder alone; NoFrame otherwise.
NoFrame == [m |-> -1, s |-> 0, r |-> 0, u |-> 0]

Init ==
  /\ caliper_raw_data = 0
  /\ bit_counter = 0
  /\ new_packet_ready = FALSE
  /\ last_interrupt_time = U32Zero
  /\ oledTimer = 0
  /\ measurement = <<0, 100>>
  /\ inch = FALSE
  /\ pc = "check"
  /\ data_copy = 0
  /\ integerMeasurement = 0
  /\ flags = 0
  /\ intEnabled = TRUE
  /\ edges = 0
  /\ oddGaps = 0
  /\ gap = <<0, 0, 0>>
  /\ didReset = FALSE
  /\ sampled = <<>>
  /\ nEdges = 0
  /\ framed = FALSE
  /\ runUnder = TRUE
  /\ runWithin = TRUE
  /\ completions = 0
  /\ drains = 0
  /\ served = 0
  /\ lastFrame = 0
  /\ copied = <<>>
  /\ encoded = NoFrame
  /\ nowMs = 0
  /\ lastRedraw = -1
  /\ redrawGap = -1

\* ------------------------------------------------------------- read_bit

\* micros() when the true time g has passed since the previous invocation.
micros(g) == AddU32(last_interrupt_time, <<g[2], g[3]>>)

LtU32(a, b) == a[1] < b[1] \/ (a[1] = b[1] /\ a[2] < b[2])

\* A frame-start test that also takes a timer that went backwards for a gap.
IsNewPacket_WrapIsGap(current_time, last) ==
  LtU32(current_time, last) \/ GtU32(SubU32(current_time, last), PACKET_TIMEOUT_US)

\* A frame-start test written current_time > last + PACKET_TIMEOUT_US, the sum
\* taken without wrapping.
IsNewPacket_NoWrap(current_time, last) ==
  LET lo == last[2] + PACKET_TIMEOUT_US
      sum == <<last[1] + (lo \div Limb), lo % Limb>>
  IN  LtU32(sum, current_time)

\* Variant: the test written with >= instead of >.
IsNewPacket_AtLeast(current_time, last) ==
  ~LtU32(SubU32(current_time, last), <<0, PACKET_TIMEOUT_US>>)

\* Variant: the difference taken as a signed 32-bit long.
IsNewPacket_Signed(current_time, last) ==
  LET d == SubU32(current_time, last)
  IN  d[1] < Limb \div 2 /\ GtU32(d, PACKET_TIMEOUT_US)

\* current_time - last_interrupt_time > PACKET_TIMEOUT_US, in unsigned long.
IsNewPacket(current_time, last) ==
  GtU32(SubU32(current_time, last), PACKET_TIMEOUT_US)

\* A store that fills the packet from its most significant bit down.
StoreBit_MsbFirst(raw, counter, level) ==
  IF level = HIGH THEN BitOr(raw, 2^(PACKET_BITS - 1 - counter)) ELSE raw

\* Variant: the bit stored one position too high, 1UL << (bit_counter + 1).
StoreBit_ShiftedOne(raw, counter, level) ==
  IF level = HIGH THEN BitOr(raw, 2^(counter + 1)) ELSE raw

\* caliper_raw_data |= (1UL << bit_counter) when DATA is HIGH.
StoreBit(raw, counter, level) ==
  IF level = HIGH THEN BitOr(raw, 2^counter) ELSE raw

\* Variant: the reset clears bit_counter only and keeps the accumulator.
RawAfterTimeout_Kept(newPacket, raw) == raw

\* bit_counter = 0; caliper_raw_data = 0; when a new packet starts.
RawAfterTimeout(newPacket, raw) == IF newPacket THEN 0 ELSE raw

\* Variant: the time is recorded only while a frame is being collected.
LastInterruptTime_FrameOnly(current_time, last, counter) ==
  IF counter < PACKET_BITS THEN current_time ELSE last

\* last_interrupt_time = current_time, whatever bit_counter is.
LastInterruptTime(current_time, last, counter) == current_time

\* Variant: new_packet_ready = (bit_counter == 24), which also clears the flag.
PacketReady_Tracking(counter, ready) == counter = PACKET_BITS

\* if (bit_counter == 24) new_packet_ready = true;
PacketReady(counter, ready) == IF counter = PACKET_BITS THEN TRUE ELSE ready

read_bit(g, level) ==
  LET current_time == micros(g)
      newPacket == IsNewPacket(current_time, last_interrupt_time)
      counter0 == IF newPacket THEN 0 ELSE bit_counter
      raw0 == RawAfterTimeout(newPacket, caliper_raw_data)
      sample == counter0 < PACKET_BITS
      raw1 == IF sample THEN StoreBit(raw0, counter0, level) ELSE raw0
      counter1 == IF sample THEN counter0 + 1 ELSE counter0
      completes == sample /\ counter1 = PACKET_BITS
      pre == IF newPacket THEN <<>> ELSE sampled
  IN  /\ caliper_raw_data' = raw1
      /\ bit_counter' = counter1
      /\ last_interrupt_time' =
           LastInterruptTime(current_time, last_interrupt_time, counter0)
      /\ new_packet_ready' = PacketReady(counter1, new_packet_ready)
      /\ UNCHANGED <<oledTimer, measurement, inch>>
      /\ UNCHANGED loopVars
      /\ edges' = edges + 1
      /\ oddGaps' = IF g = NominalGap THEN oddGaps ELSE oddGaps + 1
      /\ gap' = g
      /\ didReset' = newPacket
      /\ sampled' = IF Len(pre) < PACKET_BITS THEN Append(pre, level) ELSE pre
      /\ nEdges' = IF newPacket THEN 1 ELSE nEdges + 1
      /\ framed' = (framed \/ newPacket)
      /\ runUnder' = (newPacket \/ (runUnder /\ GapBelow(g, PACKET_TIMEOUT_US)))
      /\ runWithin' = (newPacket \/ (runWithin /\ ~GapAbove(g, PACKET_TIMEOUT_US)))
      /\ completions' = IF completes THEN completions + 1 ELSE completions
      /\ lastFrame' = IF completes THEN raw1 ELSE lastFrame
      /\ UNCHANGED <<drains, served, copied, encoded, nowMs, lastRedraw, redrawGap>>

\* The levels offered to an invocation with gap g: the DATA line matters only
\* when the handler samples it.
LevelsFor(g, words) ==
  LET newPacket == IsNewPacket(micros(g), last_interrupt_time)
      pre == IF newPacket THEN <<>> ELSE sampled
  IN  IF Len(pre) < PACKET_BITS /\ (newPacket \/ bit_counter < PACKET_BITS)
      THEN DataLevels(pre, words) ELSE {LOW}

\* A rising CLK edge is served: the handler runs unless interrupts are masked.
EdgeWithin(maxEdges, maxOddGaps, numWords) ==
  /\ intEnabled
  /\ edges < maxEdges
  /\ \E g \in {NominalGap} \cup (IF oddGaps < maxOddGaps THEN OddGaps ELSE {}) :
       \E level \in LevelsFor(g, Words(numWords)) : read_bit(g, level)

Edge == EdgeWithin(MaxEdges, MaxOddGaps, NumWords)

LongEdge == EdgeWithin(LongEdges, LongOddGaps, LongWords)

\* ----------------------------------------------------------- handleData

\* data_copy & 0x0FFFFF
MagnitudeField(data) == BitAnd(data, 1048575)

\* (data_copy >> 20) & 0x0F
FlagsField(data) == BitAnd(ShiftRight(data, 20), 15)

\* A sign taken from flag bit 1 instead of flag bit 0.
SignFactor_Bit1(fl) == IF bitRead(fl, 1) = 1 THEN -1 ELSE 1

\* Variant: the sign read from flag bit 2, a reserved bit.
SignFactor_Bit2(fl) == IF bitRead(fl, 2) = 1 THEN -1 ELSE 1

\* bitRead(flags, 0) ? -1 : 1
SignFactor(fl) == IF bitRead(fl, 0) = 1 THEN -1 ELSE 1

handleData(data) ==
  LET magnitude == MagnitudeField(data)
      fl == FlagsField(data)
      signed == magnitude * SignFactor(fl)
      in == (bitRead(fl, 3) = 1)
      clamped == constrain(signed, -CLAMP_MAX, CLAMP_MAX)
  IN  [ integerMeasurement |-> clamped,
        flags |-> fl,
        inch |-> in,
        \* measurement = clamped / 100.0, then /= 25.4 when in inches: kept as
        \* the exact fraction <<numerator, denominator>>
        measurement |-> IF in THEN <<clamped, 2540>> ELSE <<clamped, 100>> ]

\* Variant: the elapsed time taken as the absolute difference of the two bytes.
OledDue_Abs(ms8, timer, force) ==
  force \/ (IF ms8 >= timer THEN ms8 - timer ELSE timer - ms8) >= UPDATE_OLED_PERIOD

\* force || (uint8_t)(ms - oledTimer) >= UPDATE_OLED_PERIOD, ms being the low
\* 8 bits of millis().
OledDue(ms8, timer, force) ==
  force \/ ((ms8 - timer) % 256) >= UPDATE_OLED_PERIOD

\* updateOled(): the 8-bit timer value after a call at millis() = ms.
updateOled(ms, force) ==
  LET ms8 == ms % 256
  IN  IF OledDue(ms8, oledTimer, force) THEN ms8 ELSE oledTimer

\* Milliseconds that pass between two calls of updateOled() from loop().
MillisSamples == {0, 100}

\* A call of updateOled() dt milliseconds after the previous one (the first:
\* after boot), with the redraw it makes or skips.
TimedUpdateOled(dt) ==
  LET ms == nowMs + dt
      due == OledDue(ms % 256, oledTimer, FALSE)
  IN  /\ nowMs' = ms
      /\ oledTimer' = updateOled(ms, FALSE)
      /\ lastRedraw' = IF due THEN ms ELSE lastRedraw
      /\ redrawGap' = IF due /\ lastRedraw >= 0 THEN ms - lastRedraw ELSE redrawGap

\* ----------------------------------------------------------------- loop

\* if (new_packet_ready) { ... } : a poll that finds no packet ends loop().
LoopCheckWithin(maxDrains) ==
  /\ pc = "check"
  /\ new_packet_ready => drains < maxDrains
  /\ pc' = IF new_packet_ready THEN "noInterrupts" ELSE "check"
  /\ UNCHANGED <<progVars, data_copy, integerMeasurement, flags, intEnabled, histVars>>

LoopCheck == LoopCheckWithin(MaxDrains)

LongLoopCheck == LoopCheckWithin(LongDrains)

LoopNoInterrupts ==
  /\ pc = "noInterrupts"
  /\ intEnabled' = FALSE
  /\ pc' = "copy"
  /\ UNCHANGED <<progVars, data_copy, integerMeasurement, flags, histVars>>

LoopCopy ==
  /\ pc = "copy"
  /\ data_copy' = caliper_raw_data
  /\ drains' = drains + 1
  /\ copied' = sampled
  /\ pc' = "clear"
  /\ UNCHANGED <<progVars, integerMeasurement, flags, intEnabled>>
  /\ UNCHANGED <<edges, oddGaps, gap, didReset, sampled, nEdges, framed, runUnder,
                 runWithin, completions, served, lastFrame, encoded,
                 nowMs, lastRedraw, redrawGap>>

LoopClear ==
  /\ pc = "clear"
  /\ new_packet_ready' = FALSE
  /\ served' = completions
  /\ pc' = "interrupts"
  /\ UNCHANGED <<caliper_raw_data, bit_counter, last_interrupt_time, oledTimer,
                 measurement, inch>>
  /\ UNCHANGED <<data_copy, integerMeasurement, flags, intEnabled>>
  /\ UNCHANGED <<edges, oddGaps, gap, didReset, sampled, nEdges, framed, runUnder,
                 runWithin, completions, drains, lastFrame, copied, encoded,
                 nowMs, lastRedraw, redrawGap>>

\* Variant: loop() goes on to handleData() without calling interrupts().
LoopInterrupts_Forgot ==
  /\ pc = "interrupts"
  /\ pc' = "handleData"
  /\ UNCHANGED <<progVars, data_copy, integerMeasurement, flags, intEnabled, histVars>>

LoopInterrupts ==
  /\ pc = "interrupts"
  /\ intEnabled' = TRUE
  /\ pc' = "handleData"
  /\ UNCHANGED <<progVars, data_copy, integerMeasurement, flags, histVars>>

\* handleData(data_copy); updateOled();
LoopHandle ==
  /\ pc = "handleData"
  /\ LET r == handleData(data_copy)
     IN  /\ integerMeasurement' = r.integerMeasurement
         /\ flags' = r.flags
         /\ inch' = r.inch
         /\ measurement' = r.measurement
  /\ \E dt \in MillisSamples : TimedUpdateOled(dt)
  /\ pc' = "check"
  /\ UNCHANGED <<caliper_raw_data, bit_counter, new_packet_ready, last_interrupt_time>>
  /\ UNCHANGED <<data_copy, intEnabled>>
  /\ UNCHANGED <<edges, oddGaps, gap, didReset, sampled, nEdges, framed, runUnder,
                 runWithin, completions, drains, served, lastFrame, copied, encoded>>

Next ==
  \/ Edge
  \/ LoopCheck
  \/ LoopNoInterrupts
  \/ LoopCopy
  \/ LoopClear
  \/ LoopInterrupts
  \/ LoopHandle

Spec == Init /\ [][Next]_vars

\* The same program over longer behaviours with narrower inputs.
NextLong ==
  \/ LongEdge
  \/ LongLoopCheck
  \/ LoopNoInterrupts
  \/ LoopCopy
  \/ LoopClear
  \/ LoopInterrupts
  \/ LoopHandle

SpecLong == Init /\ [][NextLong]_vars

\* The program under a scheduler that keeps calling loop(). The drains cannot
\* outnumber the edges, so the test of new_packet_ready is never held back.
FairEdge == EdgeWithin(FairEdges, FairOddGaps, FairWords)

FairLoopCheck == LoopCheckWithin(FairEdges)

FairLoop ==
  \/ FairLoopCheck
  \/ LoopNoInterrupts
  \/ LoopCopy
  \/ LoopClear
  \/ LoopInterrupts
  \/ LoopHandle

NextFair == FairEdge \/ FairLoop

\* loop() is called again and again by the runtime and none of its statements
\* waits: a step of loop() that can be taken is taken.
SpecFair == Init /\ [][NextFair]_vars /\ WF_vars(FairLoop)

\* The time that passes between two calls of updateOled(), in milliseconds.
OledSteps == {0, 60, 99, 100, 156, 256}

\* updateOled() is called, not forced, dt milliseconds after the call before.
UpdateOledCall ==
  /\ \E dt \in OledSteps :
       /\ nowMs + dt <= MaxMs
       /\ TimedUpdateOled(dt)
  /\ UNCHANGED <<caliper_raw_data, bit_counter, new_packet_ready, last_interrupt_time,
                 measurement, inch>>
  /\ UNCHANGED loopVars
  /\ UNCHANGED <<edges, oddGaps, gap, didReset, sampled, nEdges, framed, runUnder,
                 runWithin, completions, drains, served, lastFrame, copied, encoded>>

NextOled == UpdateOledCall

\* The calls of updateOled() alone, from the state setup() leaves.
SpecOled == Init /\ [][NextOled]_vars

\* ------------------------------------------------- handleData on its own
\* The decoder is a function of the drained packet alone. Its inputs are drawn
\* from every flag nibble and a range of magnitude fields; the state is the one
\* the program is in when the first packet after boot, received with nominal
\* gaps, has been copied out and loop() is about to call handleData.

DecodeMagnitudes ==
  (0..DecodeSpan)
    \cup ((CLAMP_MAX - DecodeSpan)..(CLAMP_MAX + DecodeSpan))
    \cup ((1048575 - DecodeSpan)..1048575)

\* The packet with magnitude m in bits 0-19, sign s in bit 20, the reserved
\* bits r in bits 21-22 and unit u in bit 23.
EncodeFrame(e) == e.m + e.s * (2^20) + e.r * (2^21) + e.u * (2^23)

LevelsOf(frame) == [i \in 1..PACKET_BITS |-> (frame \div (2^(i - 1))) % 2]

InitDecode ==
  \E m \in DecodeMagnitudes, s \in 0..1, r \in 0..3, u \in 0..1 :
    LET e == [m |-> m, s |-> s, r |-> r, u |-> u]
        frame == EncodeFrame(e)
    IN  /\ caliper_raw_data = frame
        /\ bit_counter = PACKET_BITS
        /\ new_packet_ready = FALSE
        /\ last_interrupt_time = <<1, 54440>>
        /\ oledTimer = 0
        /\ measurement = <<0, 100>>
        /\ inch = FALSE
        /\ pc = "handleData"
        /\ data_copy = frame
        /\ integerMeasurement = 0
        /\ flags = 0
        /\ intEnabled = TRUE
        /\ edges = PACKET_BITS
        /\ oddGaps = 0
        /\ gap = NominalGap
        /\ didReset = FALSE
        /\ sampled = LevelsOf(frame)
        /\ nEdges = PACKET_BITS
        /\ framed = FALSE
        /\ runUnder = TRUE
        /\ runWithin = TRUE
        /\ completions = 1
        /\ drains = 1
        /\ served = 1
        /\ lastFrame = frame
        /\ copied = LevelsOf(frame)
        /\ encoded = e
        /\ nowMs = 0
        /\ lastRedraw = -1
        /\ redrawGap = -1

NextDecode == LoopHandle

SpecDecode == InitDecode /\ [][NextDecode]_vars

\* ------------------------------------------------------------ properties

\* The gap the 32-bit timer measures for a true gap g: g modulo 2^32.
Measured(g) == <<0, g[2], g[3]>>

OnlyFirstHigh == [i \in 1..PACKET_BITS |-> IF i = 1 THEN HIGH ELSE LOW]

\* C1: every value loop() copies out of caliper_raw_data is the complete content
\* of one fully received packet: at the copy bit_counter is 24 and the copy is
\* the packet that completed last, never a partly accumulated one.
C1_DrainIsCompleteFrame ==
  pc = "clear" => (bit_counter = PACKET_BITS /\ data_copy = lastFrame)

\* C2: the drains loop() performs never outnumber the times bit_counter went
\* from 23 to 24, so no completed packet is drained twice.
C2_DrainsWithinCompletions == drains <= completions

\* C3: an edge whose gap is under 5000 us never resets the accumulator, also
\* across a wrap of the timer; and k <= 24 edges from a frame-start reset on,
\* all with gaps under 5000 us, leave bit_counter = k and each sampled level at
\* its own bit of caliper_raw_data.
C3_QuietEdgesAccumulate ==
  /\ (edges >= 1 /\ GapBelow(gap, PACKET_TIMEOUT_US)) => ~didReset
  /\ (framed /\ runUnder /\ nEdges <= PACKET_BITS) =>
        /\ bit_counter = nEdges
        /\ Len(sampled) = nEdges
        /\ \A i \in 1..nEdges : bitRead(caliper_raw_data, i - 1) = sampled[i]
        /\ caliper_raw_data < 2^nEdges

\* The third edge of a packet, the timer having wrapped since the second.
C3_Witness ==
  /\ framed /\ runUnder /\ nEdges >= 3 /\ bit_counter = nEdges
  /\ gap = NominalGap
  /\ last_interrupt_time[1] = 0 /\ last_interrupt_time[2] < NominalGap[3]

\* What a frame start leaves: the edge is bit 0 of a fresh packet and nothing
\* received before it remains.
FrameStarted ==
  /\ didReset
  /\ bit_counter = 1
  /\ nEdges = 1
  /\ Len(sampled) = 1
  /\ caliper_raw_data = sampled[1]

\* C4 as claimed: an edge whose gap to the previous edge is 5000 us or more,
\* exactly 5000 included, is a frame start.
C4_GapAtLeastTimeoutStartsFrame ==
  (edges >= 2 /\ ~GapBelow(gap, PACKET_TIMEOUT_US)) => FrameStarted

\* C4 as amended: an edge whose gap to the previous edge, as the 32-bit timer
\* measures it, is more than 5000 us is a frame start.
C4_GapOverTimeoutStartsFrame ==
  (edges >= 2 /\ GapAbove(Measured(gap), PACKET_TIMEOUT_US)) => FrameStarted

\* A gap of 5001 us after at least two earlier edges.
C4_Witness ==
  /\ edges >= 3 /\ gap = <<0, 0, 5001>>
  /\ FrameStarted

\* C5: handleData has a result for every packet, and the signed magnitude it
\* computes lies in -15000..15000.
C5_DecodedMagnitudeInRange ==
  /\ pc = "handleData" => ENABLED LoopHandle
  /\ integerMeasurement >= -CLAMP_MAX
  /\ integerMeasurement <= CLAMP_MAX
  /\ measurement[1] = integerMeasurement

\* The largest magnitude field, negative, decoded.
C5_Witness ==
  /\ pc = "check" /\ encoded.m = 1048575 /\ encoded.s = 1
  /\ integerMeasurement = -CLAMP_MAX

\* C6: the packet built from a magnitude m <= 15000, a sign bit s and a unit
\* bit u decodes to s ? -m : m and to inch = u; 14942 with s = 0 and u = 0
\* decodes to 14942 hundredths of a millimetre, not inches.
C6_RoundTrip ==
  /\ (pc = "check" /\ encoded.m >= 0 /\ encoded.m <= CLAMP_MAX /\ encoded.r = 0) =>
        /\ integerMeasurement = (IF encoded.s = 1 THEN -encoded.m ELSE encoded.m)
        /\ inch = (encoded.u = 1)
        /\ measurement[1] = integerMeasurement
        /\ measurement[2] = (IF encoded.u = 1 THEN 2540 ELSE 100)
  /\ (pc = "check" /\ encoded = [m |-> 14942, s |-> 0, r |-> 0, u |-> 0]) =>
        /\ integerMeasurement = 14942
        /\ measurement = <<14942, 100>>
        /\ ~inch

\* 149.42 mm, negative, in inches.
C6_Witness ==
  /\ pc = "check" /\ encoded = [m |-> 14942, s |-> 1, r |-> 0, u |-> 1]
  /\ integerMeasurement = -14942 /\ inch

\* C7: a magnitude field over 15000 decodes to exactly +15000 with the sign bit
\* clear and exactly -15000 with it set.
C7_ClampSaturates ==
  (pc = "check" /\ encoded.m > CLAMP_MAX) =>
    /\ integerMeasurement = (IF encoded.s = 1 THEN -CLAMP_MAX ELSE CLAMP_MAX)
    /\ measurement[1] = integerMeasurement

\* The first magnitude over the limit, positive.
C7_Witness ==
  /\ pc = "check" /\ encoded.m = CLAMP_MAX + 1 /\ encoded.s = 0
  /\ integerMeasurement = CLAMP_MAX

\* C8: after a frame-start reset and 24 edges with gaps within the timeout,
\* caliper_raw_data is the sum of level i times 2^i; the packet whose only high
\* level is on the first edge decodes to magnitude 1.
C8_LsbFirst ==
  /\ (framed /\ runWithin /\ nEdges = PACKET_BITS) =>
        /\ Len(sampled) = PACKET_BITS
        /\ caliper_raw_data = LsbFirstValue(sampled)
  /\ (pc = "check" /\ copied = OnlyFirstHigh) =>
        /\ integerMeasurement = 1
        /\ measurement = <<1, 100>>

\* The packet with only its first level high, received after a reset, drained
\* and decoded.
C8_Witness ==
  /\ framed /\ runWithin /\ nEdges = PACKET_BITS
  /\ sampled = OnlyFirstHigh /\ copied = OnlyFirstHigh
  /\ pc = "check" /\ integerMeasurement = 1

\* C9: when two packets have completed since the last drain, the next drain
\* returns the bits of the second.
C9_DrainReturnsSecondFrame ==
  (pc = "clear" /\ completions - served >= 2) => data_copy = lastFrame

\* C10: new_packet_ready is true exactly when 24 bits have been accumulated
\* since the last reset and the packet has not been drained.
C10_ReadyIffCompleteUndrained ==
  new_packet_ready <=> (bit_counter = PACKET_BITS /\ served < completions)

\* A step of read_bit: the handler has served one more edge.
EdgeStep == edges' = edges + 1

\* A step of loop(): the polling context has moved on.
LoopStep == pc' # pc

\* C11: read_bit changes new_packet_ready to true only on the edge that takes
\* bit_counter from 23 to 24; an edge that finds bit_counter = 24 and starts no
\* new frame leaves new_packet_ready as it was.
C11_ReadyOnlyOnLastBit ==
  [][ EdgeStep =>
        /\ (~new_packet_ready /\ new_packet_ready') =>
              (bit_counter = PACKET_BITS - 1 /\ bit_counter' = PACKET_BITS)
        /\ (bit_counter = PACKET_BITS /\ ~didReset') =>
              new_packet_ready' = new_packet_ready ]_vars

\* C12: bit_counter is within 0..24, caliper_raw_data is below 2^24 and has no
\* bit set at a position bit_counter or higher.
C12_AccumulatorBounds ==
  /\ bit_counter >= 0
  /\ bit_counter <= PACKET_BITS
  /\ caliper_raw_data >= 0
  /\ caliper_raw_data < 2^PACKET_BITS
  /\ \A i \in 0..(PACKET_BITS - 1) :
       i >= bit_counter => bitRead(caliper_raw_data, i) = 0

\* A packet being collected after a frame start, some bits high, its top bits
\* not yet received.
C12_Witness ==
  /\ framed /\ edges > nEdges
  /\ bit_counter > 1 /\ bit_counter < PACKET_BITS
  /\ bitRead(caliper_raw_data, bit_counter - 1) = 1

\* C13: an edge that finds bit_counter = 24, its gap not over 5000 us, leaves
\* caliper_raw_data and bit_counter alone and sets last_interrupt_time to its
\* own time, so the edge after it is judged by the gap to it and not by the
\* time since the 24th edge.
C13_ExtraEdgeMovesLastTime ==
  [][ (EdgeStep /\ bit_counter = PACKET_BITS /\ ~GapAbove(gap', PACKET_TIMEOUT_US)) =>
        /\ caliper_raw_data' = caliper_raw_data
        /\ bit_counter' = bit_counter
        /\ ~didReset'
        /\ last_interrupt_time' = AddU32(last_interrupt_time, <<gap'[2], gap'[3]>>)
        /\ last_interrupt_time' # last_interrupt_time ]_vars

\* Two edges after the 24th of a packet, each within 5000 us of the edge
\* before it, the second more than 5000 us after the 24th.
C13_Witness ==
  /\ nEdges >= PACKET_BITS + 2 /\ runWithin
  /\ bit_counter = PACKET_BITS /\ ~didReset
  /\ gap = NominalGap

\* C14: for two consecutive edges less than 2^32 us apart, read_bit resets
\* bit_counter and caliper_raw_data exactly when the gap is over 5000 us,
\* whether the timer wrapped between the two edges or not.
C14_ResetIffGapOverTimeout ==
  (edges >= 2 /\ gap[1] = 0) =>
      /\ didReset <=> GapAbove(gap, PACKET_TIMEOUT_US)
      /\ didReset => FrameStarted

\* A gap of 5001 us across a wrap of the timer: the edge is a frame start.
C14_Witness ==
  /\ edges >= 2 /\ gap = <<0, 0, 5001>>
  /\ last_interrupt_time[1] = 0 /\ last_interrupt_time[2] < 5001
  /\ FrameStarted

\* C15 as claimed: the edge that ends a silence of more than 5000 us, of any
\* length, one timer period or more included, is a frame start.
C15_AnySilenceStartsFrame ==
  (edges >= 2 /\ GapAbove(gap, PACKET_TIMEOUT_US)) => FrameStarted

\* C15 as amended: the edge that ends a silence of more than 5000 us is a frame
\* start exactly when the length of the silence modulo 2^32 us, which is what
\* the timer measures, is over 5000 us; every silence under 2^32 us is.
C15_SilenceStartsFrameModuloPeriod ==
  (edges >= 2 /\ GapAbove(gap, PACKET_TIMEOUT_US)) =>
      /\ didReset <=> GapAbove(Measured(gap), PACKET_TIMEOUT_US)
      /\ didReset => FrameStarted
      /\ gap[1] = 0 => didReset

\* A silence of one timer period and 6 ms ends in a frame start.
C15_Witness ==
  /\ edges >= 2 /\ gap = <<1, 0, 6000>>
  /\ FrameStarted

\* C16: loop() and what it calls never write caliper_raw_data, bit_counter or
\* last_interrupt_time; the only shared variable they write is new_packet_ready,
\* cleared after the copy with interrupts masked; and read_bit never takes
\* new_packet_ready from true to false.
C16_Ownership ==
  [][ /\ LoopStep =>
           /\ caliper_raw_data' = caliper_raw_data
           /\ bit_counter' = bit_counter
           /\ last_interrupt_time' = last_interrupt_time
           /\ new_packet_ready' # new_packet_ready =>
                 /\ pc = "clear" /\ ~intEnabled /\ ~intEnabled'
                 /\ ~new_packet_ready'
                 /\ data_copy = caliper_raw_data
      /\ EdgeStep => (new_packet_ready => new_packet_ready') ]_vars

\* loop() has just cleared the flag in its critical section and an edge has
\* been served while an earlier packet was still flagged.
C16_Witness ==
  /\ pc = "interrupts" /\ ~new_packet_ready /\ ~intEnabled
  /\ served >= 1 /\ edges > PACKET_BITS

WithReserved(frame, r) ==
  frame - ((frame \div (2^21)) % 4) * (2^21) + r * (2^21)

\* C18: the reserved flag bits 21 and 22 do not influence decoding: a packet
\* decodes to the measurement and the inch flag of the packets that differ from
\* it in those two bits only.
C18_ReservedBitsIgnored ==
  (pc = "check" /\ encoded.m >= 0) =>
      \A r \in 0..3 :
        LET other == WithReserved(data_copy, r)
            decoded == handleData(other)
        IN  /\ other \div (2^23) = data_copy \div (2^23)
            /\ other % (2^21) = data_copy % (2^21)
            /\ decoded.measurement = measurement
            /\ decoded.inch = inch

\* A negative inch packet with both reserved bits set has been decoded.
C18_Witness ==
  /\ pc = "check" /\ encoded.m = 14942
  /\ encoded.r = 3 /\ encoded.s = 1 /\ encoded.u = 1
  /\ integerMeasurement = -14942 /\ inch

\* C19: loop() never blocks and a completed packet is consumed: whenever
\* new_packet_ready is true loop() comes to clear it in its critical section,
\* whatever loop() has begun it finishes, handleData included, and interrupts
\* masked are enabled again.
C19_ReadyLeadsToDrain ==
  /\ new_packet_ready ~> (pc = "interrupts" /\ ~new_packet_ready /\ ~intEnabled)
  /\ (pc # "check") ~> (pc = "check" /\ intEnabled)
  /\ (~intEnabled) ~> intEnabled

\* A packet was flagged, drained and decoded, and loop() polls again with
\* interrupts enabled.
C19_Witness ==
  /\ pc = "check" /\ intEnabled /\ ~new_packet_ready
  /\ completions = 1 /\ served = 1 /\ drains = 1
  /\ bit_counter = PACKET_BITS

\* C20: two consecutive redraws made by calls of updateOled() that are not
\* forced are at least 100 ms apart on the untruncated clock, although the
\* time kept is the low 8 bits of millis().
C20_RedrawsApart ==
  /\ redrawGap # -1 => redrawGap >= UPDATE_OLED_PERIOD
  /\ lastRedraw # -1 => (oledTimer = lastRedraw % 256 /\ lastRedraw <= nowMs)

\* Two redraws on either side of a wrap of the 8-bit time, 156 ms apart, and a
\* later call that drew nothing.
C20_Witness ==
  /\ redrawGap = 156 /\ lastRedraw >= 256 /\ lastRedraw - redrawGap < 256
  /\ nowMs > lastRedraw

====
